---- MODULE Spec2Model ----
(***************************************************************************)
(* A model of the generic LRU cache of lru.go: the key table (c.nodes),    *)
(* the intrusive circular list with its sentinel (c.list), the mutex       *)
(* (c.mu), the cache nodes with their sync.Once, and the goroutines that   *)
(* call Get and Delete concurrently.                                       *)
(***************************************************************************)
EXTENDS Integers, Sequences, FiniteSets, TLC

\* ---- bounds of the model ------------------------------------------------
NumProcs == 2       \* goroutines calling Get / Delete
NumKeys  == 3       \* keys 1..NumKeys
MaxNodes == 3       \* lruNodes the memory has room for
MaxTime  == 1       \* clock readings 0..MaxTime
MaxSize  == 2       \* largest "size" argument given to New
MaxTTL   == 1       \* largest "ttl" argument given to New

\* ---- program constants --------------------------------------------------
MinSize == 2                        \* lru.go:31  size < 2 panics
Forever == 50 * 365 * 24            \* lru.go:41  ttl == 0 keeps "forever" (hours)

Procs  == 1..NumProcs
Keys   == 1..NumKeys
Root   == 0                         \* &c.list, the sentinel
NilPtr == -1                        \* a nil pointer
Ptrs   == 1..MaxNodes               \* addresses of allocated lruNodes
NoProc == 0                         \* an unlocked sync.Mutex

ErrNil      == 0                    \* a nil error
ErrPanicked == -1                   \* errors.New("backend function panicked")
ZeroValue   == 0                    \* the zero value of V

MaxCalls == 2                       \* the backend calls counted for one node stop here
MaxTrace == 3                       \* the misses a traced run goes on for
SeqMaxTime == 2                     \* clock readings of a traced run
SeqMaxTTL  == 2                     \* largest "ttl" of a traced run

VARIABLES
    mu,       \* c.mu: the goroutine holding it, or NoProc
    nodes,    \* c.nodes: key -> node pointer (NilPtr: key not in the map)
    list,     \* the listNode of the sentinel and of every lruNode: [next, prev]
    size,     \* c.size
    ttl,      \* c.ttl
    heap,     \* the lruNode objects: key, value, err, ts, once (done flag + mutex)
    now,      \* the monotonic clock read by time.Now / time.Since
    pc,       \* position of every goroutine
    key,      \* the key argument of the call a goroutine is in
    node,     \* the local variable "node" of Get
    hist,     \* history of every node: backend calls made for it, what the
              \* backend returned for it
    recent,   \* history: distinct keys given to get, least recently used first
    deleted,  \* history: some Delete removed a node
    tracing,  \* the backend is a tracingBackend
    trace,    \* tracingBackend.trace: the keys given to the backend, in order
    misses    \* history of a traced run: the keys that get did not find, or
              \* found expired, in order

vars == <<mu, nodes, list, size, ttl, heap, now, pc, key, node,
          hist, recent, deleted, tracing, trace, misses>>

\* ---- the backend -----------------------------------------------------------
\* what a backend may return for a key: the value of a valid key, or the
\* error of a key that is not found
backend(k) ==
    { [value |-> -k, err |-> ErrNil], [value |-> ZeroValue, err |-> k] }

\* ---- the LRU list ---------------------------------------------------------
\* an insertion at the other end of the list, as the least recent item
addToBack(L, l, root) ==
    LET L1 == [L  EXCEPT ![l].prev = L[root].prev]
        L2 == [L1 EXCEPT ![l].next = root]
        L3 == [L2 EXCEPT ![L2[l].prev].next = l]
    IN  [L3 EXCEPT ![L3[l].next].prev = l]

\* add the node to the given root as the most recent item
addTo(L, l, root) ==
    LET L1 == [L  EXCEPT ![l].next = L[root].next]
        L2 == [L1 EXCEPT ![l].prev = root]
        L3 == [L2 EXCEPT ![L2[l].prev].next = l]
    IN  [L3 EXCEPT ![L3[l].next].prev = l]

\* a removal that forgets l.next.prev
removeHalf(L, l) ==
    [L EXCEPT ![L[l].prev].next = L[l].next]

\* remove the node from the list
remove(L, l) ==
    LET L1 == [L EXCEPT ![L[l].prev].next = L[l].next]
    IN  [L1 EXCEPT ![L1[l].next].prev = L1[l].prev]

\* purge the node from the list (remove and set pointers to nil)
purge(L, l) ==
    [remove(L, l) EXCEPT ![l] = [next |-> NilPtr, prev |-> NilPtr]]

\* a hit that leaves the node where it is
mtfNone(L, l, root) == L

\* move the node to the top of the list at root
mtf(L, l, root) ==
    IF l # L[root].next THEN addTo(remove(L, l), l, root) ELSE L

\* len(c.nodes)
len(m) == Cardinality({k \in Keys : m[k] # NilPtr})

\* a cache that takes itself for full one node too early
fullEarly(m, sz) == len(m) >= sz - 1

\* a cache that takes itself for full one node too late
fullLate(m, sz) == len(m) > sz

\* case len(c.nodes) >= c.size: cache full
full(m, sz) == len(m) >= sz

\* a comparison that keeps a node of the age ttl
unexpiredLate(ts, t) == now - ts <= t

\* time.Since(node.ts) < c.ttl: the node has not expired
unexpired(ts, t) == now - ts < t

\* a return that leaves c.mu locked
UnlockMissing(p) == p

\* c.mu after c.mu.Unlock() by goroutine p
Unlock(p) == NoProc

\* a Get that reads the node without asking whether its Once is done
firedAlways(n) == TRUE

\* a guard that counts only a success as done, and fetches again after an error
firedOnSuccess(n) == heap[n].done /\ heap[n].err = ErrNil

\* sync.Once: the function of the Once of node n has run
fired(n) == heap[n].done

\* a guard that does not wait for the goroutine fetching the data
lockedNever(n) == FALSE

\* sync.Once: the mutex of the Once of node n is held
locked(n) == heap[n].m # NoProc

\* ---- memory ---------------------------------------------------------------
\* an lruNode as allocated by get: &lruNode[K, V]{key: key, ts: time.Now()}
lruNode(k, t) ==
    [key |-> k, value |-> ZeroValue, err |-> ErrNil, ts |-> t,
     done |-> FALSE, m |-> NoProc]

\* memory that is not allocated, or that the garbage collector took back
freed == lruNode(0, 0)

\* the history of a node that had no backend call and is not removed
noHist == [calls |-> 0, out |-> {}, gone |-> "no"]

\* the history notes how a node left the cache
mark(G, n, why) == [G EXCEPT ![n].gone = why]

\* the nodes a pointer leads to: from the map, or from a goroutine inside Get
reachable(M, N, P) ==
    {M[k] : k \in Keys} \cup {N[p] : p \in {q \in Procs : P[q] \in {"once", "backend", "ret"}}}

\* garbage collection: a node that no pointer leads to is gone
collect(H, M, N, P) ==
    [n \in Ptrs |-> IF n \in reachable(M, N, P) THEN H[n] ELSE freed]

collectHist(G, M, N, P) ==
    [n \in Ptrs |-> IF n \in reachable(M, N, P) THEN G[n] ELSE noHist]

\* the memory that is free
free == Ptrs \ reachable(nodes, node, pc)

\* an allocator that takes a node back as soon as the map has let go of it,
\* whoever still holds it
allocUnmapped ==
    CHOOSE n \in Ptrs \ {nodes[k] : k \in Keys} :
        \A m \in Ptrs \ {nodes[k] : k \in Keys} : n <= m

\* the address the allocator gives to a new node
alloc == CHOOSE n \in free : \A m \in free : n <= m

\* ---- construction ---------------------------------------------------------
\* New(size, ttl, backend): the cache after construction
New(sz, t) ==
    /\ size  = sz
    /\ ttl   = (IF t = 0 THEN Forever ELSE t)
    /\ mu    = NoProc
    /\ nodes = [k \in Keys |-> NilPtr]
    /\ list  = [n \in {Root} \cup Ptrs |->
                  IF n = Root THEN [next |-> Root, prev |-> Root]
                              ELSE [next |-> NilPtr, prev |-> NilPtr]]

Init ==
    /\ \E sz \in MinSize..MaxSize, t \in 1..MaxTTL : New(sz, t)
    /\ heap   = [n \in Ptrs |-> freed]
    /\ now    = 0
    /\ pc     = [p \in Procs |-> "idle"]
    /\ key    = [p \in Procs |-> 0]
    /\ node   = [p \in Procs |-> NilPtr]
    /\ hist   = [n \in Ptrs |-> noHist]
    /\ recent = << >>
    /\ deleted = FALSE
    /\ tracing = FALSE
    /\ trace   = << >>
    /\ misses  = << >>

\* ---- helpers of the history ----------------------------------------------
RECURSIVE without(_, _)
without(s, k) ==
    IF s = << >> THEN << >>
    ELSE IF Head(s) = k THEN without(Tail(s), k)
         ELSE <<Head(s)>> \o without(Tail(s), k)

\* the keys touched, by their last access, while no Delete has removed a node
touch(k) == IF deleted THEN recent ELSE Append(without(recent, k), k)

\* ---- the clock -----------------------------------------------------------
Tick ==
    /\ now < MaxTime
    /\ now' = now + 1
    /\ UNCHANGED <<mu, nodes, list, size, ttl, heap, pc, key, node,
                   hist, recent, deleted>>
    /\ UNCHANGED <<tracing, trace, misses>>

\* ---- Get -----------------------------------------------------------------
\* a goroutine calls Get(k), which calls get(k): c.mu.Lock()
GetLock(p, k) ==
    /\ pc[p] = "idle"
    /\ free # {}
    /\ mu = NoProc
    /\ Len(misses) < MaxTrace
    /\ mu'  = p
    /\ pc'  = [pc EXCEPT ![p] = "find"]
    /\ key' = [key EXCEPT ![p] = k]
    /\ UNCHANGED <<nodes, list, size, ttl, heap, now, node,
                   hist, recent, deleted>>
    /\ UNCHANGED <<tracing, trace, misses>>

\* a get that gives a node that it finds the timestamp of the hit
GetFindRefresh(p) ==
    /\ pc[p] = "find"
    /\ LET n == nodes[key[p]] IN
       IF n # NilPtr THEN
          IF unexpired(heap[n].ts, ttl) THEN
             /\ list' = mtf(list, n, Root)
             /\ node' = [node EXCEPT ![p] = n]
             /\ pc'   = [pc EXCEPT ![p] = "once"]
             /\ mu'   = Unlock(p)
             /\ nodes' = nodes
             /\ hist' = collectHist(hist, nodes', node', pc')
             /\ heap' = collect([heap EXCEPT ![n].ts = now], nodes', node', pc')
          ELSE
             /\ list' = purge(list, n)
             /\ pc'   = [pc EXCEPT ![p] = "add"]
             /\ UNCHANGED <<nodes, node, mu>>
             /\ hist' = collectHist(mark(hist, n, "expired"), nodes', node', pc')
             /\ heap' = collect(heap, nodes', node', pc')
       ELSE IF full(nodes, size) THEN
          LET lr == list[Root].prev IN
             /\ nodes' = [nodes EXCEPT ![heap[lr].key] = NilPtr]
             /\ list'  = purge(list, lr)
             /\ pc'    = [pc EXCEPT ![p] = "add"]
             /\ UNCHANGED <<node, mu>>
             /\ hist'  = collectHist(mark(hist, lr, "evicted"), nodes', node', pc')
             /\ heap'  = collect(heap, nodes', node', pc')
       ELSE
             /\ pc'    = [pc EXCEPT ![p] = "add"]
             /\ UNCHANGED <<nodes, list, node, mu>>
             /\ hist'  = collectHist(hist, nodes', node', pc')
             /\ heap'  = collect(heap, nodes', node', pc')
    /\ recent' = touch(key[p])
    /\ UNCHANGED <<size, ttl, now, key, deleted>>
    /\ misses' = IF tracing /\ (nodes[key[p]] = NilPtr
                                \/ ~unexpired(heap[nodes[key[p]]].ts, ttl))
                 THEN Append(misses, key[p]) ELSE misses
    /\ UNCHANGED <<tracing, trace>>

\* a get that, having purged an expired node, also makes room in a full cache
GetFindEvicts(p) ==
    /\ pc[p] = "find"
    /\ LET n == nodes[key[p]] IN
       IF n # NilPtr THEN
          \* cache hit
          IF unexpired(heap[n].ts, ttl) THEN
             \* happy path: return, the deferred c.mu.Unlock() runs
             /\ list' = mtf(list, n, Root)
             /\ node' = [node EXCEPT ![p] = n]
             /\ pc'   = [pc EXCEPT ![p] = "once"]
             /\ mu'   = Unlock(p)
             /\ nodes' = nodes
             /\ hist' = collectHist(hist, nodes', node', pc')
          ELSE
             \* purge the expired node, then go on to the test for a full
             \* cache and delete the least recent of the other nodes
             LET L1 == purge(list, n)
                 lr == L1[Root].prev
             IN IF full(nodes, size) /\ lr # Root THEN
                   /\ nodes' = [nodes EXCEPT ![heap[lr].key] = NilPtr]
                   /\ list'  = purge(L1, lr)
                   /\ pc'    = [pc EXCEPT ![p] = "add"]
                   /\ UNCHANGED <<node, mu>>
                   /\ hist'  = collectHist(mark(mark(hist, n, "expired"),
                                                lr, "evicted"),
                                           nodes', node', pc')
                ELSE
                   /\ list' = L1
                   /\ pc'   = [pc EXCEPT ![p] = "add"]
                   /\ UNCHANGED <<nodes, node, mu>>
                   /\ hist' = collectHist(mark(hist, n, "expired"),
                                          nodes', node', pc')
       ELSE IF full(nodes, size) THEN
          \* cache full: delete the least recent
          LET lr == list[Root].prev IN
             /\ nodes' = [nodes EXCEPT ![heap[lr].key] = NilPtr]
             /\ list'  = purge(list, lr)
             /\ pc'    = [pc EXCEPT ![p] = "add"]
             /\ UNCHANGED <<node, mu>>
             /\ hist'  = collectHist(mark(hist, lr, "evicted"), nodes', node', pc')
       ELSE
             /\ pc'    = [pc EXCEPT ![p] = "add"]
             /\ UNCHANGED <<nodes, list, node, mu>>
             /\ hist'  = collectHist(hist, nodes', node', pc')
    /\ heap'   = collect(heap, nodes', node', pc')
    /\ recent' = touch(key[p])
    /\ UNCHANGED <<size, ttl, now, key, deleted>>
    /\ misses' = IF tracing /\ (nodes[key[p]] = NilPtr
                                \/ ~unexpired(heap[nodes[key[p]]].ts, ttl))
                 THEN Append(misses, key[p]) ELSE misses
    /\ UNCHANGED <<tracing, trace>>

\* get: node = c.nodes[key] and the switch
GetFind(p) ==
    /\ pc[p] = "find"
    /\ LET n == nodes[key[p]] IN
       IF n # NilPtr THEN
          \* cache hit
          IF unexpired(heap[n].ts, ttl) THEN
             \* happy path: return, the deferred c.mu.Unlock() runs
             /\ list' = mtf(list, n, Root)
             /\ node' = [node EXCEPT ![p] = n]
             /\ pc'   = [pc EXCEPT ![p] = "once"]
             /\ mu'   = Unlock(p)
             /\ nodes' = nodes
             /\ hist' = collectHist(hist, nodes', node', pc')
          ELSE
             \* purge the expired node (the key stays in the map)
             /\ list' = purge(list, n)
             /\ pc'   = [pc EXCEPT ![p] = "add"]
             /\ UNCHANGED <<nodes, node, mu>>
             /\ hist' = collectHist(mark(hist, n, "expired"), nodes', node', pc')
       ELSE IF full(nodes, size) THEN
          \* cache full: delete the least recent
          LET lr == list[Root].prev IN
             /\ nodes' = [nodes EXCEPT ![heap[lr].key] = NilPtr]
             /\ list'  = purge(list, lr)
             /\ pc'    = [pc EXCEPT ![p] = "add"]
             /\ UNCHANGED <<node, mu>>
             /\ hist'  = collectHist(mark(hist, lr, "evicted"), nodes', node', pc')
       ELSE
             /\ pc'    = [pc EXCEPT ![p] = "add"]
             /\ UNCHANGED <<nodes, list, node, mu>>
             /\ hist'  = collectHist(hist, nodes', node', pc')
    /\ heap'   = collect(heap, nodes', node', pc')
    /\ recent' = touch(key[p])
    /\ UNCHANGED <<size, ttl, now, key, deleted>>
    /\ misses' = IF tracing /\ (nodes[key[p]] = NilPtr
                                \/ ~unexpired(heap[nodes[key[p]]].ts, ttl))
                 THEN Append(misses, key[p]) ELSE misses
    /\ UNCHANGED <<tracing, trace>>

\* get: allocate and add a new node as the most recent, return (the deferred
\* c.mu.Unlock() runs)
GetAdd(p) ==
    /\ pc[p] = "add"
    /\ LET n == alloc IN
         /\ list'   = addTo(list, n, Root)
         /\ nodes'  = [nodes EXCEPT ![key[p]] = n]
         /\ node'   = [node EXCEPT ![p] = n]
         /\ pc'     = [pc EXCEPT ![p] = "once"]
         /\ heap'   = collect([heap EXCEPT ![n] = lruNode(key[p], now)],
                              nodes', node', pc')
    /\ hist' = collectHist(hist, nodes', node', pc')
    /\ mu' = Unlock(p)
    /\ UNCHANGED <<size, ttl, now, key, recent, deleted>>
    /\ UNCHANGED <<tracing, trace, misses>>

\* node.once.Do: the function has run already
OnceFast(p) ==
    /\ pc[p] = "once"
    /\ fired(node[p])
    /\ pc' = [pc EXCEPT ![p] = "ret"]
    /\ UNCHANGED <<mu, nodes, list, size, ttl, heap, now, key, node,
                   hist, recent, deleted>>
    /\ UNCHANGED <<tracing, trace, misses>>

\* node.once.Do: the first caller takes the mutex of the Once and calls
\* c.backend(node.key); the others wait for the mutex
OnceSlow(p) ==
    /\ pc[p] = "once"
    /\ ~fired(node[p])
    /\ ~locked(node[p])
    /\ hist[node[p]].calls < MaxCalls
    /\ heap' = [heap EXCEPT ![node[p]].m = p]
    /\ hist' = [hist EXCEPT ![node[p]].calls = @ + 1]
    /\ pc'   = [pc EXCEPT ![p] = "backend"]
    /\ UNCHANGED <<mu, nodes, list, size, ttl, now, key, node,
                   recent, deleted>>
    /\ trace' = IF tracing THEN Append(trace, heap[node[p]].key) ELSE trace
    /\ UNCHANGED <<tracing, misses>>

\* node.value, node.err = c.backend(node.key); the function of the Once is
\* over: done is set and the mutex of the Once unlocked
BackendReturn(p) ==
    /\ pc[p] = "backend"
    /\ \E r \in backend(heap[node[p]].key) :
         /\ heap' = [heap EXCEPT ![node[p]].value = r.value,
                                 ![node[p]].err = r.err,
                                 ![node[p]].done = TRUE,
                                 ![node[p]].m = NoProc]
         /\ hist' = [hist EXCEPT ![node[p]].out = @ \cup
                        {[key |-> heap[node[p]].key, value |-> r.value, err |-> r.err]}]
    /\ pc' = [pc EXCEPT ![p] = "ret"]
    /\ UNCHANGED <<mu, nodes, list, size, ttl, now, key, node,
                   recent, deleted>>
    /\ UNCHANGED <<tracing, trace, misses>>

\* a panic that leaves the Once as it is: not done, its mutex locked
BackendPanicStrands(p) ==
    /\ pc[p] = "backend"
    /\ pc'   = [pc EXCEPT ![p] = "idle"]
    /\ key'  = [key EXCEPT ![p] = 0]
    /\ node' = [node EXCEPT ![p] = NilPtr]
    /\ heap' = collect(heap, nodes, node', pc')
    /\ hist' = collectHist(hist, nodes, node', pc')
    /\ UNCHANGED <<mu, nodes, list, size, ttl, now, recent, deleted>>
    /\ UNCHANGED <<tracing, trace, misses>>

\* the backend panics: the deferred function records an error and panics
\* again; the Once sets done and unlocks its mutex; the panic leaves Get,
\* whose caller recovers it and goes on
BackendPanic(p) ==
    /\ pc[p] = "backend"
    /\ pc'   = [pc EXCEPT ![p] = "idle"]
    /\ key'  = [key EXCEPT ![p] = 0]
    /\ node' = [node EXCEPT ![p] = NilPtr]
    /\ heap' = collect([heap EXCEPT ![node[p]].err = ErrPanicked,
                                    ![node[p]].done = TRUE,
                                    ![node[p]].m = NoProc],
                       nodes, node', pc')
    /\ hist' = collectHist(hist, nodes, node', pc')
    /\ UNCHANGED <<mu, nodes, list, size, ttl, now, recent, deleted>>
    /\ UNCHANGED <<tracing, trace, misses>>

\* return node.value, node.err
GetReturn(p) ==
    /\ pc[p] = "ret"
    /\ pc'   = [pc EXCEPT ![p] = "idle"]
    /\ key'  = [key EXCEPT ![p] = 0]
    /\ node' = [node EXCEPT ![p] = NilPtr]
    /\ heap' = collect(heap, nodes, node', pc')
    /\ hist' = collectHist(hist, nodes, node', pc')
    /\ UNCHANGED <<mu, nodes, list, size, ttl, now, recent, deleted>>
    /\ UNCHANGED <<tracing, trace, misses>>

\* ---- Delete --------------------------------------------------------------
\* a goroutine calls Delete(k): c.mu.Lock()
DeleteLock(p, k) ==
    /\ pc[p] = "idle"
    /\ mu = NoProc
    /\ mu'  = p
    /\ pc'  = [pc EXCEPT ![p] = "delete"]
    /\ key' = [key EXCEPT ![p] = k]
    /\ UNCHANGED <<nodes, list, size, ttl, heap, now, node,
                   hist, recent, deleted>>
    /\ UNCHANGED <<tracing, trace, misses>>

\* a Delete that purges the node and leaves its key in the map
DeleteKeepsKey(p) ==
    /\ pc[p] = "delete"
    /\ LET n == nodes[key[p]] IN
       IF n # NilPtr THEN
          /\ list'  = purge(list, n)
          /\ deleted' = TRUE
          /\ recent'  = << >>
          /\ nodes' = nodes
       ELSE UNCHANGED <<nodes, list, deleted, recent>>
    /\ mu'  = Unlock(p)
    /\ pc'  = [pc EXCEPT ![p] = "idle"]
    /\ key' = [key EXCEPT ![p] = 0]
    /\ hist' = collectHist(IF nodes[key[p]] # NilPtr
                              THEN mark(hist, nodes[key[p]], "deleted") ELSE hist,
                           nodes', node, pc')
    /\ heap' = collect(heap, nodes', node, pc')
    /\ UNCHANGED <<size, ttl, now, node>>
    /\ UNCHANGED <<tracing, trace, misses>>

\* a Delete that, when the key is not in the map, removes the least recent node
DeleteSome(p) ==
    /\ pc[p] = "delete"
    /\ LET n == IF nodes[key[p]] # NilPtr THEN nodes[key[p]] ELSE list[Root].prev IN
       /\ IF n # Root THEN
             /\ nodes' = [nodes EXCEPT ![heap[n].key] = NilPtr]
             /\ list'  = purge(list, n)
             /\ deleted' = TRUE
             /\ recent'  = << >>
          ELSE UNCHANGED <<nodes, list, deleted, recent>>
       /\ mu'  = Unlock(p)
       /\ pc'  = [pc EXCEPT ![p] = "idle"]
       /\ key' = [key EXCEPT ![p] = 0]
       /\ hist' = collectHist(IF n # Root THEN mark(hist, n, "deleted") ELSE hist,
                              nodes', node, pc')
    /\ heap' = collect(heap, nodes', node, pc')
    /\ UNCHANGED <<size, ttl, now, node>>
    /\ UNCHANGED <<tracing, trace, misses>>

\* if node := c.nodes[key]; node != nil { delete(c.nodes, key); node.purge() }
\* and the deferred c.mu.Unlock()
Delete(p) ==
    /\ pc[p] = "delete"
    /\ LET n == nodes[key[p]] IN
       IF n # NilPtr THEN
          /\ nodes' = [nodes EXCEPT ![key[p]] = NilPtr]
          /\ list'  = purge(list, n)
          /\ deleted' = TRUE
          /\ recent'  = << >>
       ELSE UNCHANGED <<nodes, list, deleted, recent>>
    /\ mu'  = Unlock(p)
    /\ pc'  = [pc EXCEPT ![p] = "idle"]
    /\ key' = [key EXCEPT ![p] = 0]
    /\ hist' = collectHist(IF nodes[key[p]] # NilPtr
                              THEN mark(hist, nodes[key[p]], "deleted") ELSE hist,
                           nodes', node, pc')
    /\ heap' = collect(heap, nodes', node, pc')
    /\ UNCHANGED <<size, ttl, now, node>>
    /\ UNCHANGED <<tracing, trace, misses>>

\* ---- the specification ---------------------------------------------------
Next ==
    \/ Tick
    \/ \E p \in Procs, k \in Keys : GetLock(p, k)
    \/ \E p \in Procs : GetFind(p)
    \/ \E p \in Procs : GetAdd(p)
    \/ \E p \in Procs : OnceFast(p)
    \/ \E p \in Procs : OnceSlow(p)
    \/ \E p \in Procs : BackendReturn(p)
    \/ \E p \in Procs : BackendPanic(p)
    \/ \E p \in Procs : GetReturn(p)
    \/ \E p \in Procs, k \in Keys : DeleteLock(p, k)
    \/ \E p \in Procs : Delete(p)

Spec == Init /\ [][Next]_vars

\* ---- a cache that keeps its records forever, fairly scheduled ----------------
\* New(size, 0, backend): with ttl == 0 no record ever expires
LiveInit ==
    /\ \E sz \in MinSize..MaxSize : New(sz, 0)
    /\ heap   = [n \in Ptrs |-> freed]
    /\ now    = 0
    /\ pc     = [p \in Procs |-> "idle"]
    /\ key    = [p \in Procs |-> 0]
    /\ node   = [p \in Procs |-> NilPtr]
    /\ hist   = [n \in Ptrs |-> noHist]
    /\ recent = << >>
    /\ deleted = FALSE
    /\ tracing = FALSE
    /\ trace   = << >>
    /\ misses  = << >>

\* the calls of Get and Delete; the clock, which decides nothing here, stands
LiveNext ==
    \/ \E p \in Procs, k \in Keys : GetLock(p, k)
    \/ \E p \in Procs : GetFind(p)
    \/ \E p \in Procs : GetAdd(p)
    \/ \E p \in Procs : OnceFast(p)
    \/ \E p \in Procs : OnceSlow(p)
    \/ \E p \in Procs : BackendReturn(p)
    \/ \E p \in Procs : BackendPanic(p)
    \/ \E p \in Procs : GetReturn(p)
    \/ \E p \in Procs, k \in Keys : DeleteLock(p, k)
    \/ \E p \in Procs : Delete(p)

\* the steps of goroutine p inside a call of Get or Delete
step(p) ==
    \/ GetFind(p) \/ GetAdd(p) \/ OnceFast(p) \/ OnceSlow(p)
    \/ BackendReturn(p) \/ BackendPanic(p) \/ GetReturn(p) \/ Delete(p)

\* the scheduler runs every goroutine that can run, and every call of the
\* backend ends; nobody has to call Get or Delete
FairSpec == LiveInit /\ [][LiveNext]_vars /\ \A p \in Procs : WF_vars(step(p))

\* ---- a single goroutine with a tracing backend ------------------------------
Main == 1

SeqInit ==
    /\ \E sz \in MinSize..MaxSize, t \in 1..SeqMaxTTL : New(sz, t)
    /\ heap   = [n \in Ptrs |-> freed]
    /\ now    = 0
    /\ pc     = [p \in Procs |-> "idle"]
    /\ key    = [p \in Procs |-> 0]
    /\ node   = [p \in Procs |-> NilPtr]
    /\ hist   = [n \in Ptrs |-> noHist]
    /\ recent = << >>
    /\ deleted = FALSE
    /\ tracing = TRUE
    /\ trace   = << >>
    /\ misses  = << >>

\* the clock of the traced run
SeqTick ==
    /\ now < SeqMaxTime
    /\ now' = now + 1
    /\ UNCHANGED <<mu, nodes, list, size, ttl, heap, pc, key, node,
                   hist, recent, deleted>>
    /\ UNCHANGED <<tracing, trace, misses>>

SeqNext ==
    \/ SeqTick
    \/ \E k \in Keys : GetLock(Main, k)
    \/ GetFind(Main)
    \/ GetAdd(Main)
    \/ OnceFast(Main)
    \/ OnceSlow(Main)
    \/ BackendReturn(Main)
    \/ BackendPanic(Main)
    \/ GetReturn(Main)
    \/ \E k \in Keys : DeleteLock(Main, k)
    \/ Delete(Main)

SeqSpec == SeqInit /\ [][SeqNext]_vars

\* ==== properties ===========================================================
RECURSIVE walkNext(_, _, _)
walkNext(L, n, fuel) ==
    IF n = Root \/ n = NilPtr \/ fuel = 0 THEN << >>
    ELSE <<n>> \o walkNext(L, L[n].next, fuel - 1)

RECURSIVE walkPrev(_, _, _)
walkPrev(L, n, fuel) ==
    IF n = Root \/ n = NilPtr \/ fuel = 0 THEN << >>
    ELSE <<n>> \o walkPrev(L, L[n].prev, fuel - 1)

\* the nodes of the list, most recent first, and least recent first
headToTail == walkNext(list, list[Root].next, MaxNodes + 1)
tailToHead == walkPrev(list, list[Root].prev, MaxNodes + 1)

elems(s)  == {s[i] : i \in 1..Len(s)}
keysOf(s) == [i \in 1..Len(s) |-> heap[s[i]].key]
lastN(s, n) == SubSeq(s, IF Len(s) > n THEN Len(s) - n + 1 ELSE 1, Len(s))

\* the nodes of the key table
mapped == {nodes[k] : k \in Keys} \ {NilPtr}

\* what Get returns from node n
pair(n) == [value |-> heap[n].value, err |-> heap[n].err]

\* goroutine p is running the backend, is returning from Get
resolving(p) == pc[p] = "backend"
returning(p) == pc[p] = "ret"

\* C3: whenever c.mu is not held, the key table has as many keys as the list
\* has nodes, and at most c.size of them
C3_BoundedResidency ==
    mu = NoProc =>
        /\ len(nodes) = Len(headToTail)
        /\ len(nodes) <= size

\* the cache is at capacity after an eviction: a key was given to get and is
\* not in the table, though nothing was deleted
C3_Witness ==
    /\ mu = NoProc
    /\ ~deleted
    /\ len(nodes) = size
    /\ \E i \in 1..Len(recent) : nodes[recent[i]] = NilPtr

\* C4: whenever c.mu is not held, the list is a ring through the sentinel
\* whose links agree in both directions, it holds exactly the nodes of the
\* key table, each once, and the node of key k has the key k
C4_Correspondence ==
    mu = NoProc =>
        LET ring == elems(headToTail) \cup {Root} IN
        /\ \A n \in ring :
              /\ list[n].next \in ring
              /\ list[n].prev \in ring
              /\ list[list[n].next].prev = n
              /\ list[list[n].prev].next = n
        /\ elems(headToTail) = mapped
        /\ Len(headToTail) = Cardinality(mapped)
        /\ elems(tailToHead) = mapped
        /\ Len(tailToHead) = Cardinality(mapped)
        /\ \A k \in Keys : nodes[k] # NilPtr => heap[nodes[k]].key = k
        /\ \A k1, k2 \in Keys : nodes[k1] # NilPtr /\ nodes[k1] = nodes[k2] => k1 = k2

\* a full cache made by insertions that followed a Delete, with a goroutine
\* still inside Get
C4_Witness ==
    /\ mu = NoProc
    /\ deleted
    /\ len(nodes) = size
    /\ \E p \in Procs : returning(p) /\ node[p] \notin mapped

\* C5: c.mu is held only inside the bookkeeping of get and Delete, never by
\* a goroutine that is in node.once.Do, in the backend or returning; the
\* holder of c.mu can always take its next step, nobody waits for it longer;
\* and a goroutine in node.once.Do waits only while another goroutine runs
\* the backend for the same node
C5_GuardNotHeldInBackend ==
    /\ \A p \in Procs :
          /\ mu = p => pc[p] \in {"find", "add", "delete"}
          /\ pc[p] \in {"find", "add", "delete"} => mu = p
          /\ mu = p => ENABLED (GetFind(p) \/ GetAdd(p) \/ Delete(p))
    /\ \A q \in Procs :
          (pc[q] = "once" /\ ~ENABLED (OnceFast(q) \/ OnceSlow(q))) =>
              \E p \in Procs \ {q} :
                  resolving(p) /\ node[p] = node[q] /\ heap[node[p]].key = key[q]
    /\ \A q \in Procs :
          (pc[q] = "idle" /\ mu = NoProc) =>
              /\ \A k \in Keys : ENABLED DeleteLock(q, k)
              /\ free # {} => \A k \in Keys : ENABLED GetLock(q, k)

\* two goroutines run the backend for different keys at the same time
C5_Witness ==
    \E p, q \in Procs :
        /\ resolving(p)
        /\ resolving(q)
        /\ heap[node[p]].key # heap[node[q]].key

\* C6, as claimed: no two backend calls for the same key are in progress at
\* the same time
C6_OnePerKey ==
    \A p, q \in Procs :
        (p # q /\ resolving(p) /\ resolving(q)) =>
            heap[node[p]].key # heap[node[q]].key

\* C6, amended: no two backend calls for the same node are in progress at
\* the same time, and no node ever gets a second call; two calls in progress
\* for one key are for two nodes, of which at most one is in the key table
C6_OnePerNode ==
    /\ \A n \in Ptrs : hist[n].calls <= 1
    /\ \A p, q \in Procs :
          (p # q /\ resolving(p) /\ resolving(q)) =>
              /\ node[p] # node[q]
              /\ heap[node[p]].key = heap[node[q]].key =>
                    (node[p] \notin mapped \/ node[q] \notin mapped)

\* two backend calls for one key in progress, for two nodes
C6_Witness ==
    \E p, q \in Procs :
        /\ resolving(p)
        /\ resolving(q)
        /\ node[p] # node[q]
        /\ heap[node[p]].key = heap[node[q]].key

\* C7: as long as no Delete has removed a node, whenever c.mu is not held
\* the keys of the list, least recent first, are the last c.size distinct
\* keys given to get, in the order of their last access
C7_LRUResidency ==
    (mu = NoProc /\ ~deleted) => keysOf(tailToHead) = lastN(recent, size)

\* more distinct keys than the capacity have been accessed, the key accessed
\* first is still in the cache, and no call is in progress
C7_Witness ==
    /\ ~deleted
    /\ \A p \in Procs : pc[p] = "idle"
    /\ Len(recent) > size
    /\ len(nodes) = size
    /\ now = 0
    /\ \E k \in Keys : nodes[k] = 1 /\ list[Root].next # 1

\* the nodes a pointer leads to after the step
reachableNext == reachable(nodes', node', pc')

\* the nodes of the list after the step, most recent first
headToTailNext == walkNext(list', list'[Root].next, MaxNodes + 1)

\* C1: the backend is called at most once for a node, it has been called
\* exactly once for the node a Get returns from, and the value and error of
\* the node never change once its Once has fired, so every Get that got the
\* node returns the same pair
C1_SingleFlight ==
    /\ [](\A n \in Ptrs : hist[n].calls <= 1)
    /\ [](\A p \in Procs : returning(p) =>
              fired(node[p]) /\ hist[node[p]].calls = 1)
    /\ [][\A n \in Ptrs : (fired(n) /\ n \in reachableNext) =>
              (fired(n)' /\ pair(n)' = pair(n))]_vars

\* two Gets return from the same node, which holds a value
C1_Witness ==
    \E p, q \in Procs :
        /\ p # q
        /\ returning(p)
        /\ returning(q)
        /\ node[p] = node[q]
        /\ heap[node[p]].err = ErrNil

\* C2, as claimed: the pair a Get(k) returns is a pair that the backend
\* returned for the key k
C2_ValueFromBackend ==
    \A p \in Procs :
        returning(p) =>
            [key |-> key[p], value |-> heap[node[p]].value,
             err |-> heap[node[p]].err] \in hist[node[p]].out

\* C8: once the backend has returned an error for a node, the node keeps
\* that error and gets no further backend call for as long as a pointer leads
\* to it, a hit on an unexpired node hands out the node of the key table, and
\* a Get that returns from the node returns the error
C8_FailureCaching ==
    /\ [][\A n \in Ptrs :
            (fired(n) /\ heap[n].err \notin {ErrNil, ErrPanicked}
                      /\ n \in reachableNext) =>
               /\ heap'[n].done
               /\ heap'[n].err = heap[n].err
               /\ heap'[n].value = heap[n].value
               /\ hist'[n].calls = hist[n].calls]_vars
    /\ [][\A p \in Procs :
            (pc[p] = "find" /\ pc'[p] = "once") =>
               /\ node'[p] = nodes[key[p]]
               /\ nodes' = nodes
               /\ heap'[node'[p]] = heap[node'[p]]]_vars
    /\ [](\A p \in Procs :
            returning(p) =>
               \A r \in hist[node[p]].out :
                  r.err # ErrNil =>
                     (heap[node[p]].err = r.err /\ hist[node[p]].calls = 1))

\* two Gets return the error of the same node: one of them did not call the
\* backend
C8_Witness ==
    \E p, q \in Procs :
        /\ p # q
        /\ returning(p)
        /\ returning(q)
        /\ node[p] = node[q]
        /\ heap[node[p]].err \notin {ErrNil, ErrPanicked}
        /\ node[p] \in mapped

\* C9, as claimed: an error that Get returns is an error that the backend
\* returned
C9_NoOwnFailure ==
    \A p \in Procs :
        (returning(p) /\ heap[node[p]].err # ErrNil) =>
            \E n \in Ptrs : \E r \in hist[n].out : r.err = heap[node[p]].err

\* C10: a Get that finds a node of the age ttl or older purges it and goes
\* on to add a new node; the node a Get adds is new memory, in the key
\* table, with no backend call yet and the timestamp of now; every node a
\* Get hands out is in the key table and younger than ttl; a Get that finds
\* a node younger than ttl hands out that node and leaves the table alone;
\* and the node a Get returns from has had exactly one backend call
C10_LazyExpiry ==
    /\ [][\A p \in Procs :
            LET n == nodes[key[p]] IN
            (pc[p] = "find" /\ pc'[p] # "find" /\ n # NilPtr) =>
               IF now - heap[n].ts >= ttl
               THEN /\ pc'[p] = "add"
                    /\ list'[n] = [next |-> NilPtr, prev |-> NilPtr]
                    /\ n \notin elems(headToTailNext)
               ELSE /\ pc'[p] = "once"
                    /\ node'[p] = n
                    /\ nodes' = nodes
                    /\ n \in elems(headToTailNext)]_vars
    /\ [][\A p \in Procs :
            (pc[p] = "add" /\ pc'[p] = "once") =>
               /\ node'[p] \notin reachable(nodes, node, pc)
               /\ hist'[node'[p]].calls = 0
               /\ ~heap'[node'[p]].done
               /\ heap'[node'[p]].ts = now]_vars
    /\ [][\A p \in Procs :
            (pc[p] \in {"find", "add"} /\ pc'[p] = "once") =>
               /\ node'[p] = nodes'[key[p]]
               /\ now - heap'[node'[p]].ts < ttl]_vars
    /\ [](\A p \in Procs : returning(p) => hist[node[p]].calls = 1)

\* a Get has purged an expired node, whose key is still in the table, and is
\* about to add the new node, while another Get still returns from the old one
C10_Witness ==
    \E p, q \in Procs :
        /\ pc[p] = "add"
        /\ nodes[key[p]] # NilPtr
        /\ now - heap[nodes[key[p]]].ts >= ttl
        /\ returning(q)
        /\ node[q] = nodes[key[p]]

\* C11: a Delete returns with c.mu unlocked and its key out of the key table,
\* so that a second Delete of the key finds it absent; and a Delete of a key
\* that is not in the key table changes neither the table nor the list nor
\* any node nor the key of any other goroutine
C11_IdempotentDelete ==
    [][\A p \in Procs :
         (pc[p] = "delete" /\ pc'[p] # "delete") =>
            /\ pc'[p] = "idle"
            /\ mu' = NoProc
            /\ nodes'[key[p]] = NilPtr
            /\ \A k \in Keys \ {key[p]} : nodes'[k] = nodes[k]
            /\ nodes[key[p]] = NilPtr =>
                  /\ nodes' = nodes
                  /\ list' = list
                  /\ heap' = heap
                  /\ hist' = hist
                  /\ node' = node]_vars

\* a second Delete of a key is under way: the key is not in the table, the
\* node that the first Delete removed is still held by a Get, and the table
\* holds another node
C11_Witness ==
    \E p, q \in Procs :
        /\ pc[p] = "delete"
        /\ nodes[key[p]] = NilPtr
        /\ resolving(q)
        /\ heap[node[q]].key = key[p]
        /\ hist[node[q]].gone = "deleted"
        /\ len(nodes) > 0

\* the nodes of the key table after the step
mappedNext == {nodes'[k] : k \in Keys} \ {NilPtr}

\* C12: a Delete that removes a node whose backend call is running leaves the
\* call running and the node as it is, out of the key table and out of the
\* list; a node that a Delete removed never comes back into the key table; no
\* Get is handed a removed node; the node a Get adds is new memory with no
\* backend call yet, for which the Get calls the backend without waiting; and
\* a running backend call can always return
C12_DeleteKeepsCall ==
    /\ [][\A p \in Procs :
            LET n == nodes[key[p]] IN
            (pc[p] = "delete" /\ pc'[p] # "delete" /\ n # NilPtr) =>
               /\ n \notin mappedNext
               /\ n \notin elems(headToTailNext)
               /\ \A q \in Procs :
                     (resolving(q) /\ node[q] = n) =>
                        /\ pc'[q] = "backend"
                        /\ node'[q] = n
                        /\ heap'[n] = heap[n]
                        /\ hist'[n].calls = hist[n].calls
                        /\ hist'[n].gone = "deleted"]_vars
    /\ [][\A n \in Ptrs :
            (hist[n].gone = "deleted" /\ n \in reachableNext) =>
               /\ hist'[n].gone = "deleted"
               /\ n \notin mappedNext
               /\ n \notin elems(headToTailNext)]_vars
    /\ [][\A p \in Procs :
            (pc[p] \in {"find", "add"} /\ pc'[p] = "once") =>
               /\ hist'[node'[p]].gone = "no"
               /\ nodes[key[p]] = NilPtr =>
                     /\ pc[p] = "add"
                     /\ node'[p] \notin reachable(nodes, node, pc)
                     /\ hist'[node'[p]].calls = 0]_vars
    /\ [](\A p \in Procs :
            (pc[p] = "once" /\ hist[node[p]].calls = 0) => ENABLED OnceSlow(p))
    /\ [](\A q \in Procs : resolving(q) => ENABLED BackendReturn(q))

\* the backend runs for a node that a Delete removed, and at the same time
\* for the new node that a later Get of the same key added
C12_Witness ==
    \E p, q \in Procs :
        /\ resolving(q)
        /\ hist[node[q]].gone = "deleted"
        /\ resolving(p)
        /\ node[p] # node[q]
        /\ heap[node[p]].key = heap[node[q]].key
        /\ nodes[heap[node[p]].key] = node[p]

\* goroutine p is inside the bookkeeping that c.mu guards
bookkeeping(p) == pc[p] \in {"find", "add", "delete"}

\* goroutine q waits in node.once.Do for the Once of its node
waiting(q) == pc[q] = "once" /\ ~ENABLED (OnceFast(q) \/ OnceSlow(q))

\* C13: with every goroutine that can run scheduled and every backend call
\* ending, every call of Get and of Delete comes to its end and c.mu is
\* always released again; a Get waits only in node.once.Do, only for the
\* backend call running for its own node, and a node has one such call at
\* most; the holder of c.mu is in the bookkeeping, never in the backend or
\* waiting for it, and can take its next step, so a Delete waits for no
\* backend call; and every goroutine inside a call can take a step, or waits
\* for one that can
C13_Termination ==
    /\ \A p \in Procs : (pc[p] # "idle") ~> (pc[p] = "idle")
    /\ (mu # NoProc) ~> (mu = NoProc)
    /\ [](\A q \in Procs :
            waiting(q) =>
               \E p \in Procs \ {q} :
                  /\ resolving(p)
                  /\ node[p] = node[q]
                  /\ ENABLED step(p))
    /\ [](\A n \in Ptrs : hist[n].calls <= 1)
    /\ [](\A p \in Procs :
            /\ bookkeeping(p) <=> mu = p
            /\ bookkeeping(p) => ENABLED step(p)
            /\ (pc[p] \in {"backend", "ret"}) => ENABLED step(p))
    /\ [](\A p \in Procs :
            (pc[p] = "idle" /\ mu = NoProc) => \A k \in Keys : ENABLED DeleteLock(p, k))

\* a Get waits in node.once.Do while another goroutine runs the backend for
\* the same node, in a cache that is full
C13_Witness ==
    \E p, q \in Procs :
        /\ waiting(q)
        /\ resolving(p)
        /\ node[p] = node[q]
        /\ len(nodes) = size

\* the backend call for node n ended in a panic
panicked(n) == fired(n) /\ hist[n].calls = 1 /\ hist[n].out = {}

\* C14: when the backend panics, the node, if a pointer still leads to it, is
\* done with the error "backend function panicked" recorded and the mutex of
\* its Once unlocked, and its backend call is not counted again; such a node
\* keeps its error and gets no further backend call; a Get in node.once.Do
\* of a node that is done can go on; a Get that returns from a node whose
\* call panicked returns that error; and every Get in node.once.Do leaves it
C14_PanicFreesWaiters ==
    /\ [][\A p \in Procs :
            (resolving(p) /\ pc'[p] = "idle" /\ node[p] \in reachableNext) =>
               /\ heap'[node[p]].done
               /\ heap'[node[p]].err = ErrPanicked
               /\ heap'[node[p]].value = ZeroValue
               /\ heap'[node[p]].m = NoProc
               /\ hist'[node[p]] = hist[node[p]]]_vars
    /\ [][\A n \in Ptrs :
            (panicked(n) /\ n \in reachableNext) =>
               /\ heap'[n].done
               /\ heap'[n].err = heap[n].err
               /\ hist'[n].calls = 1
               /\ hist'[n].out = {}]_vars
    /\ [](\A q \in Procs :
            (pc[q] = "once" /\ fired(node[q])) => ENABLED OnceFast(q))
    /\ [](\A q \in Procs :
            (pc[q] \in {"once", "ret"} /\ panicked(node[q])) =>
               heap[node[q]].err = ErrPanicked)
    /\ \A q \in Procs : (pc[q] = "once") ~> (pc[q] = "ret" \/ pc[q] = "backend")
    /\ \A q \in Procs :
          (pc[q] = "once" /\ panicked(node[q])) ~>
             (returning(q) /\ heap[node[q]].err = ErrPanicked)

\* a Get returns the error recorded for a node whose backend call, made by
\* another Get, panicked
C14_Witness ==
    \E q \in Procs :
        /\ returning(q)
        /\ panicked(node[q])
        /\ heap[node[q]].err = ErrPanicked

C16_EvictionPoint ==
    /\ [][\A p \in Procs :
            LET n  == nodes[key[p]]
                lr == list[Root].prev
            IN
            /\ (pc[p] = "find" /\ pc'[p] # "find") =>
                  /\ len(nodes) <= size
                  /\ IF n = NilPtr /\ len(nodes) = size
                     THEN /\ lr # Root
                          /\ nodes[heap[lr].key] = lr
                          /\ nodes' = [nodes EXCEPT ![heap[lr].key] = NilPtr]
                          /\ list'[lr] = [next |-> NilPtr, prev |-> NilPtr]
                          /\ headToTailNext = SubSeq(headToTail, 1, Len(headToTail) - 1)
                          /\ pc'[p] = "add"
                     ELSE /\ nodes' = nodes
                          /\ elems(headToTailNext) =
                                IF n # NilPtr /\ pc'[p] = "add"
                                THEN elems(headToTail) \ {n}
                                ELSE elems(headToTail)
            /\ (pc[p] = "add" /\ pc'[p] # "add") =>
                  /\ nodes' = [nodes EXCEPT ![key[p]] = node'[p]]
                  /\ elems(headToTailNext) = elems(headToTail) \cup {node'[p]}]_vars
    /\ [][\A n \in Ptrs :
            (hist[n].gone = "no" /\ hist'[n].gone = "evicted") =>
               \E p \in Procs :
                  /\ pc[p] = "find"
                  /\ nodes[key[p]] = NilPtr
                  /\ len(nodes) = size
                  /\ n = list[Root].prev]_vars

\* a Get of a key that is not in the full table has evicted a node, which
\* another Get still returns from, and is about to add its own
C16_Witness ==
    \E p, q \in Procs :
        /\ pc[p] = "add"
        /\ nodes[key[p]] = NilPtr
        /\ len(nodes) = size - 1
        /\ ~deleted
        /\ now = 0
        /\ returning(q)
        /\ hist[node[q]].gone = "evicted"

\* goroutine p holds the node that get handed to it
holding(p) == pc[p] \in {"once", "backend", "ret"}

\* node n has left the cache
removed(n) == hist[n].gone # "no"

\* C17: a Get keeps the node that get handed to it until it returns; the step
\* that removes a node from the cache, whether a Delete, an eviction or the
\* purge of an expired node, changes neither the node nor the position of
\* any Get that holds it; a removed node stays removed and out of the list;
\* its backend call can return, and a Get waiting for it can go on once it is
\* done; a Get returns the value and error of its own node, which are those
\* that the backend call of this node returned, or the error recorded for its
\* panic; they never change; and get hands out no removed node
C17_RemovedStillCompletes ==
    /\ [][\A p \in Procs :
            (pc[p] \in {"once", "backend"} /\ holding(p)') =>
               (node'[p] = node[p] /\ key'[p] = key[p])]_vars
    /\ [][\A n \in Ptrs :
            (~removed(n) /\ removed(n)' /\ n \in reachableNext) =>
               /\ heap'[n] = heap[n]
               /\ hist'[n].calls = hist[n].calls
               /\ hist'[n].out = hist[n].out
               /\ \A q \in Procs :
                     (holding(q) /\ node[q] = n) =>
                        (pc'[q] = pc[q] /\ node'[q] = n)]_vars
    /\ [][\A n \in Ptrs :
            (removed(n) /\ n \in reachableNext) =>
               /\ hist'[n].gone = hist[n].gone
               /\ n \notin elems(headToTailNext)
               /\ (fired(n) => heap'[n] = heap[n])]_vars
    /\ [](\A q \in Procs :
            /\ resolving(q) => ENABLED BackendReturn(q)
            /\ (pc[q] = "once" /\ fired(node[q])) => ENABLED OnceFast(q))
    /\ [](\A p \in Procs :
            returning(p) =>
               /\ fired(node[p])
               /\ heap[node[p]].key = key[p]
               /\ \/ panicked(node[p]) /\ heap[node[p]].err = ErrPanicked
                  \/ hist[node[p]].out =
                        {[key |-> key[p], value |-> heap[node[p]].value,
                          err |-> heap[node[p]].err]})
    /\ [][\A p \in Procs :
            (bookkeeping(p) /\ pc'[p] = "once") =>
               /\ hist'[node'[p]].gone = "no"
               /\ node'[p] = nodes'[key[p]]]_vars

\* a Get returns the result of its node, which expired and was replaced
\* while the Get held it, and the new node of the key holds another result
C17_Witness ==
    \E p \in Procs :
        /\ returning(p)
        /\ hist[node[p]].gone = "expired"
        /\ nodes[key[p]] \notin {NilPtr, node[p]}
        /\ fired(nodes[key[p]])
        /\ pair(nodes[key[p]]) # pair(node[p])

\* sequence s is the beginning of sequence t
prefix(s, t) == Len(s) <= Len(t) /\ SubSeq(t, 1, Len(s)) = s

\* C18: in a run of one goroutine with a tracing backend, the keys given to
\* the backend are, in order, the keys that get did not find or found
\* expired: between two calls of Get the two sequences are the same; inside
\* a Get the trace is the misses, or, from the miss to the call of the
\* backend, the misses without the key of this Get; and as long as nothing
\* was deleted a key never given to Get is not in the table, so that a Get
\* of a new key is a miss
C18_SequentialTrace ==
    /\ prefix(trace, misses)
    /\ \/ trace = misses
       \/ /\ pc[Main] \in {"add", "once"}
          /\ misses = Append(trace, key[Main])
    /\ pc[Main] \in {"idle", "find", "backend", "ret", "delete"} => trace = misses
    /\ (pc[Main] = "once" /\ fired(node[Main])) => trace = misses
    /\ resolving(Main) => trace[Len(trace)] = key[Main]
    /\ ~deleted => \A k \in Keys :
                      (\A i \in 1..Len(recent) : recent[i] # k) => nodes[k] = NilPtr

\* Get was called for more keys than the cache holds, each once, and the
\* backend was called once for each, in the order of the calls
C18_Witness ==
    /\ pc[Main] = "idle"
    /\ ~deleted
    /\ now = 0
    /\ recent = <<1, 2, 3>>
    /\ trace = <<1, 2, 3>>
    /\ len(nodes) = size

\* the keys that were given to get
requested == {recent[i] : i \in 1..Len(recent)}

\* the nodes that the backend was called for
called == {n \in Ptrs : hist[n].calls > 0}

\* no more distinct keys than the cache holds were given to get, nothing was
\* deleted, and no time has passed, so that nothing has expired
withinCapacity == ~deleted /\ now = 0 /\ Len(recent) <= size

\* C19: as long as no more distinct keys than c.size were given to get, and
\* nothing was deleted or has expired, no node has left the cache; the table
\* holds the keys given to get, but for a key whose first Get is about to
\* add its node; the backend was called for nodes of the table only, once at
\* most for each, so not more often than there are keys; and when no Get is
\* under way it was called exactly once for every key
C19_NoSpuriousMiss ==
    withinCapacity =>
        /\ \A n \in Ptrs : ~removed(n)
        /\ \A k \in Keys : nodes[k] # NilPtr => k \in requested
        /\ \A k \in requested :
              \/ nodes[k] # NilPtr
              \/ \E p \in Procs : pc[p] = "add" /\ key[p] = k
        /\ \A p \in Procs : holding(p) => node[p] = nodes[key[p]]
        /\ \A n \in Ptrs : hist[n].calls <= 1
        /\ called \subseteq mapped
        /\ Cardinality(called) <= Len(recent)
        /\ (\A p \in Procs : pc[p] \in {"idle", "ret", "delete"}) =>
              /\ Cardinality(called) = Len(recent)
              /\ \A k \in requested : hist[nodes[k]].calls = 1

\* two Gets of one key return together, the cache holds as many keys as it
\* can, and the backend was called once for each key
C19_Witness ==
    \E p, q \in Procs :
        /\ p # q
        /\ returning(p)
        /\ returning(q)
        /\ key[p] = key[q]
        /\ withinCapacity
        /\ Len(recent) = size
        /\ Cardinality(called) = size

\* C20: the timestamp of a node is the time at which get added it, and no
\* step changes it for as long as a pointer leads to the node: not a hit that
\* promotes the node, not its backend call; a Get that finds the node of its
\* key takes it for expired exactly when the time is the timestamp plus ttl
\* or later, and then purges it and adds a new node; and no node is younger
\* than the clock allows
C20_NoRefresh ==
    /\ [][\A n \in Ptrs :
            (n \in reachable(nodes, node, pc) /\ n \in reachableNext) =>
               heap'[n].ts = heap[n].ts]_vars
    /\ [][\A p \in Procs :
            (pc[p] = "add" /\ pc'[p] = "once") =>
               /\ node'[p] \notin reachable(nodes, node, pc)
               /\ heap'[node'[p]].ts = now]_vars
    /\ [][\A p \in Procs :
            LET n == nodes[key[p]] IN
            (pc[p] = "find" /\ pc'[p] # "find" /\ n # NilPtr) =>
               /\ pc'[p] = "add" <=> now >= heap[n].ts + ttl
               /\ pc'[p] = "once" <=> now < heap[n].ts + ttl
               /\ pc'[p] = "add" => list'[n] = [next |-> NilPtr, prev |-> NilPtr]]_vars
    /\ [](\A n \in reachable(nodes, node, pc) \ {NilPtr} : heap[n].ts <= now)

\* Get finds the node of its key at the time of its timestamp plus ttl; the
\* node, added at time 0, is the head of the list in front of a node added
\* later: a hit has promoted it since, when it was not new any more
C20_Witness ==
    /\ pc[Main] = "find"
    /\ nodes[key[Main]] = 1
    /\ heap[1].ts = 0
    /\ now = heap[1].ts + ttl
    /\ headToTail = <<1, 2>>
    /\ heap[2].ts > 0
    /\ ~deleted
    /\ Len(recent) = 2

\* the nodes a pointer leads to before the step and after it
kept == (reachable(nodes, node, pc) \cap reachableNext) \ {NilPtr}

\* C21: a node whose Once is not done holds the zero value and no error; the
\* value or the error of a node changes only in the step that ends the one
\* backend call made for the node, taken by the goroutine that made the call,
\* and this is the step in which the Once becomes done; the Once becomes done
\* in no other step; a node that is done stays done and keeps its value and
\* error; and a Get returns from a node only when its Once is done, after
\* exactly one backend call
C21_WriteOnce ==
    /\ [](\A n \in reachable(nodes, node, pc) \ {NilPtr} :
            ~heap[n].done => pair(n) = [value |-> ZeroValue, err |-> ErrNil])
    /\ [][\A n \in kept :
            (pair(n)' # pair(n) \/ heap'[n].done # heap[n].done) =>
               /\ ~heap[n].done
               /\ heap'[n].done
               /\ hist[n].calls = 1
               /\ hist'[n].calls = 1
               /\ \E p \in Procs :
                     /\ resolving(p)
                     /\ node[p] = n
                     /\ heap[n].m = p
                     /\ pc'[p] # "backend"
                     /\ \A q \in Procs \ {p} : pc'[q] = pc[q]]_vars
    /\ [][\A n \in kept :
            heap[n].done => (heap'[n].done /\ pair(n)' = pair(n))]_vars
    /\ [](\A p \in Procs :
            returning(p) => (heap[node[p]].done /\ hist[node[p]].calls = 1))
    /\ [](\A p \in Procs :
            resolving(p) => (~heap[node[p]].done /\ heap[node[p]].m = p))

\* a Get returns the value of a node while another Get, handed the same
\* node after the backend call, is about to read it
C21_Witness ==
    \E p, q \in Procs :
        /\ returning(p)
        /\ pc[q] = "once"
        /\ node[q] = node[p]
        /\ heap[node[p]].done
        /\ heap[node[p]].value # ZeroValue

\* the keys of the key table, before the step and after it
resident     == {k \in Keys : nodes[k] # NilPtr}
residentNext == {k \in Keys : nodes'[k] # NilPtr}

\* C22: a get that finds its key in the key table leaves the set of keys of
\* the table as it was, full or not: on an unexpired node the table does not
\* change at all and the list keeps its nodes; on an expired node the purge
\* takes only that node out of the list and leaves the table alone, and the
\* add that follows changes the table only at the key of the get, where it
\* puts the new node, and takes no node out of the list
C22_ResidentKeysKept ==
    [][\A p \in Procs :
         /\ (pc[p] = "find" /\ nodes[key[p]] # NilPtr /\ pc'[p] # "find") =>
               /\ nodes' = nodes
               /\ residentNext = resident
               /\ elems(headToTail) \ {nodes[key[p]]} \subseteq
                     elems(headToTailNext)
               /\ pc'[p] = "once" =>
                     /\ node'[p] = nodes[key[p]]
                     /\ elems(headToTailNext) = elems(headToTail)
               /\ pc'[p] = "add" =>
                     elems(headToTailNext) = elems(headToTail) \ {nodes[key[p]]}
         /\ (pc[p] = "add" /\ nodes[key[p]] # NilPtr /\ pc'[p] # "add") =>
               /\ residentNext = resident
               /\ len(nodes') = len(nodes)
               /\ \A k \in Keys \ {key[p]} : nodes'[k] = nodes[k]
               /\ nodes'[key[p]] = node'[p]
               /\ nodes'[key[p]] # nodes[key[p]]
               /\ elems(headToTailNext) = elems(headToTail) \cup {node'[p]}
               /\ mappedNext = elems(headToTailNext)]_vars

\* in a full cache a get has replaced the expired node of its key by a new
\* one, whose backend call has not started, while another Get still returns
\* from the old node; the table is as full as before
C22_Witness ==
    \E p, q \in Procs :
        /\ pc[p] = "once"
        /\ nodes[key[p]] = node[p]
        /\ hist[node[p]].calls = 0
        /\ returning(q)
        /\ key[q] = key[p]
        /\ hist[node[q]].gone = "expired"
        /\ len(nodes) = size
        /\ ~deleted
        /\ Len(recent) = MinSize
====
